---------------------------- MODULE Spec2Model ----------------------------
(***************************************************************************)
(* Model of scripts/gen_icon.py: the icon generator.  main() creates two   *)
(* directories, runs /usr/bin/swift once per entry of SIZES to render a    *)
(* PNG into the iconset directory, then runs iconutil to pack the iconset  *)
(* into an .icns file.  Both tools are child processes the script waits    *)
(* for (subprocess.run, check=True).                                       *)
(*                                                                         *)
(* The filesystem is a function from paths (sequences of components) to    *)
(* nodes.  The external tools and the operating system are the             *)
(* environment: a tool may fail to start, a child may exit 0 or non-zero   *)
(* or never exit, and a mkdir may be refused.                              *)
(***************************************************************************)
EXTENDS Integers, Sequences, FiniteSets, TLC

\* Number of invocations of the script in succession that the model follows.
MaxRuns == 2

(***************************************************************************)
(* Module-level constants of the script.                                   *)
(***************************************************************************)
ICONSET == <<"build", "AppIcon.iconset">>

ICNS_OUT == <<"Resources", "AppIcon.icns">>

\* Variant: one more entry than the script lists.
SizesEleven ==
  << <<"icon_16x16.png", 16>>,
     <<"icon_16x16@2x.png", 32>>,
     <<"icon_32x32.png", 32>>,
     <<"icon_32x32@2x.png", 64>>,
     <<"icon_128x128.png", 128>>,
     <<"icon_128x128@2x.png", 256>>,
     <<"icon_256x256.png", 256>>,
     <<"icon_256x256@2x.png", 512>>,
     <<"icon_512x512.png", 512>>,
     <<"icon_512x512@2x.png", 1024>>,
     <<"icon_1024x1024.png", 1024>> >>

SIZES ==
  << <<"icon_16x16.png", 16>>,
     <<"icon_16x16@2x.png", 32>>,
     <<"icon_32x32.png", 32>>,
     <<"icon_32x32@2x.png", 64>>,
     <<"icon_128x128.png", 128>>,
     <<"icon_128x128@2x.png", 256>>,
     <<"icon_256x256.png", 256>>,
     <<"icon_256x256@2x.png", 512>>,
     <<"icon_512x512.png", 512>>,
     <<"icon_512x512@2x.png", 1024>> >>

(***************************************************************************)
(* Paths: os.path.join and os.path.dirname on component sequences.         *)
(***************************************************************************)
join(dir, name) == Append(dir, name)

dirname(p) == SubSeq(p, 1, Len(p) - 1)

\* A file in the iconset directory that the script does not write.
ExtraFile == join(ICONSET, "extra.png")

Paths ==
  {<<"build">>, ICONSET, <<"Resources">>, ICNS_OUT, ExtraFile}
    \cup {join(ICONSET, SIZES[k][1]) : k \in 1..Len(SIZES)}

(***************************************************************************)
(* Filesystem nodes.  px is the pixel edge of a PNG; imgs is the set of    *)
(* <<file name, px>> an .icns container was packed from.                   *)
(***************************************************************************)
Absent == [kind |-> "absent", px |-> 0, imgs |-> {}]

Dir == [kind |-> "dir", px |-> 0, imgs |-> {}]

Junk == [kind |-> "junk", px |-> 0, imgs |-> {}]

Png(size) == [kind |-> "png", px |-> size, imgs |-> {}]

Icns(images) == [kind |-> "icns", px |-> 0, imgs |-> images]

exists(f, p) == f[p].kind # "absent"

isdir(f, p) == f[p].kind = "dir"

\* The PNG images directly inside directory d, as <<name, px>>.
Images(f, d) ==
  {<<p[Len(p)], f[p].px>> : p \in {q \in Paths : dirname(q) = d /\ f[q].kind = "png"}}

\* Every entry directly inside directory d, as <<name, node>>.
Listing(f, d) ==
  {<<p[Len(p)], f[p]>> : p \in {q \in Paths : dirname(q) = d /\ exists(f, q)}}

(***************************************************************************)
(* os.mkdir(p): refused when p exists, when its parent is not a directory, *)
(* or when the operating system denies it (permitted = FALSE).             *)
(***************************************************************************)
mkdirFails(f, p, permitted) ==
  \/ exists(f, p)
  \/ Len(p) > 1 /\ ~isdir(f, dirname(p))
  \/ ~permitted

(***************************************************************************)
(* os.makedirs(p, exist_ok): create the missing parent first, then p.  An  *)
(* OSError from the final mkdir is swallowed only when exist_ok is set and *)
(* p is a directory.  The result is [err, fs].                             *)
(***************************************************************************)
RECURSIVE makedirs(_, _, _, _)
makedirs(f, p, exist_ok, permitted) ==
  LET head == dirname(p)
      up == IF Len(head) > 0 /\ ~exists(f, head)
            THEN makedirs(f, head, exist_ok, permitted)
            ELSE [err |-> FALSE, fs |-> f]
  IN  IF up.err THEN up
      ELSE IF mkdirFails(up.fs, p, permitted)
           THEN [err |-> ~exist_ok \/ ~isdir(up.fs, p), fs |-> up.fs]
           ELSE [err |-> FALSE, fs |-> [up.fs EXCEPT ![p] = Dir]]

\* Variant: os.makedirs called without exist_ok.
ExistOkOff == FALSE

\* exist_ok as main() passes it to os.makedirs.
ExistOk == TRUE

(***************************************************************************)
(* What the swift program of generate_png(path, size) leaves on disk when  *)
(* it exits with status rc: the f-string puts size into `let size` and     *)
(* path into the final png.write; any trap before that writes nothing.     *)
(***************************************************************************)
\* Variant: the bitmap comes out at twice the requested edge.
SwiftEffectScaled(f, path, size, rc) ==
  IF rc = 0 THEN [f EXCEPT ![path] = Png(2 * size)] ELSE f

\* Variant: a file that is replaced is first kept under another name.
SwiftEffectBackup(f, path, size, rc) ==
  IF rc = 0
  THEN [f EXCEPT ![path] = Png(size),
                 ![ExtraFile] = IF exists(f, path) THEN f[path] ELSE f[ExtraFile]]
  ELSE f

\* Variant: a failing render removes its target.
SwiftEffectUnlink(f, path, size, rc) ==
  IF rc = 0 THEN [f EXCEPT ![path] = Png(size)] ELSE [f EXCEPT ![path] = Absent]

SwiftEffect(f, path, size, rc) ==
  IF rc = 0 THEN [f EXCEPT ![path] = Png(size)] ELSE f

(***************************************************************************)
(* What `iconutil -c icns dir -o out` leaves on disk when it exits with    *)
(* status rc: on success one container packed from the images in dir.      *)
(***************************************************************************)
\* Variant: the container is written whatever the exit status.
IconutilEffectAlways(f, dir, out, rc) ==
  [f EXCEPT ![out] = Icns(Images(f, dir))]

IconutilEffect(f, dir, out, rc) ==
  IF rc = 0 THEN [f EXCEPT ![out] = Icns(Images(f, dir))] ELSE f

\* Exit statuses a child process may report.
ChildStatus == {0, 1}

\* Variant: subprocess.run without check=True.
RaisesNever(status) == FALSE

\* Variant: only a child killed by a signal (negative returncode) raises.
RaisesOnSignal(status) == status < 0

\* subprocess.run(..., check=True): CalledProcessError on a non-zero status.
Raises(status) == status # 0

\* Variant: the child is started and not waited for.
ReturnedEarly(c) == TRUE

\* subprocess.run returns only once the child has exited.
Returned(c) == c = "exited"

\* Variant: the loop skips every other entry.
NextEntrySkip(k) == k + 2

\* The for loop at line 77 takes the entries one after the other.
NextEntry(k) == k + 1

\* Exit status of the interpreter: 0 on return from main, 1 on a traceback.
ExitStatus(raised) == IF raised THEN 1 ELSE 0


(***************************************************************************)
(* State.                                                                  *)
(*   pc        position of main(): "mkdir1" (line 74), "mkdir2" (line 75), *)
(*             "loop" (line 77), "swift" (inside generate_png, line 69),   *)
(*             "icns" (line 84), "done" (returned), "aborted" (traceback)  *)
(*   i         index into SIZES of the loop at line 77                     *)
(*   sizes     the module-level list SIZES                                 *)
(*   fs        the filesystem                                              *)
(*   child     the child process: "none", "running" or "exited"            *)
(*   rc        the exit status of the last child                           *)
(*   stdout    the lines printed by this run                               *)
(*   exitCode  exit status of the script, -1 while it runs                 *)
(* History of the run, for stating the properties:                         *)
(*   calls     <<path, size>> of each generate_png call                    *)
(*   pkgCalls  number of iconutil invocations                              *)
(*   statuses  exit statuses of the children, in order                     *)
(*   mkdirErr  an os.makedirs call raised                                  *)
(*   spawnErr  subprocess.run could not start its program                  *)
(*   run       number of the current invocation of the script              *)
(*   fs0       the filesystem when the current invocation started          *)
(*   prevExit  exit status of the previous invocation, -1 if none          *)
(***************************************************************************)
VARIABLES pc, i, sizes, fs, child, rc, stdout, exitCode,
          calls, pkgCalls, statuses, mkdirErr, spawnErr, run, fs0, prevExit

vars == <<pc, i, sizes, fs, child, rc, stdout, exitCode,
          calls, pkgCalls, statuses, mkdirErr, spawnErr, run, fs0, prevExit>>

(***************************************************************************)
(* Filesystems a first invocation may start from: a fresh checkout, the    *)
(* directories of an earlier build with or without its images and bundle,  *)
(* unreadable files where the images go, or a non-directory in the way of  *)
(* one of the two directories.                                             *)
(***************************************************************************)
AllStaged == {<<join(ICONSET, SIZES[k][1]), SIZES[k][2]>> : k \in 1..Len(SIZES)}

StartFs(ic, staged, extra, res, bundle) ==
  [p \in Paths |->
     CASE p = <<"build">> -> IF ic = "nobuild" THEN Absent ELSE Dir
       [] p = ICONSET -> IF ic = "dir" THEN Dir ELSE IF ic = "junk" THEN Junk ELSE Absent
       [] p = <<"Resources">> -> IF res = "dir" THEN Dir ELSE IF res = "junk" THEN Junk ELSE Absent
       [] p = ICNS_OUT -> IF res = "dir" /\ bundle
                          THEN Icns({<<SIZES[k][1], SIZES[k][2]>> : k \in 1..Len(SIZES)})
                          ELSE Absent
       [] p = ExtraFile -> IF ic = "dir" /\ extra THEN Junk ELSE Absent
       [] OTHER -> IF ic = "dir" /\ staged = "all"
                   THEN Png((CHOOSE e \in AllStaged : e[1] = p)[2])
                   ELSE IF ic = "dir" /\ staged = "stale" THEN Junk ELSE Absent]

StartStates ==
  {StartFs(ic, staged, extra, res, bundle) :
     ic \in {"nobuild", "absent", "junk", "dir"},
     staged \in {"none", "all", "stale"},
     extra \in BOOLEAN, res \in {"absent", "junk", "dir"}, bundle \in BOOLEAN}

Init ==
  /\ pc = "mkdir1"
  /\ i = 1
  /\ sizes = SIZES
  /\ fs \in StartStates
  /\ child = "none"
  /\ rc = 0
  /\ stdout = <<>>
  /\ exitCode = -1
  /\ calls = <<>>
  /\ pkgCalls = 0
  /\ statuses = <<>>
  /\ mkdirErr = FALSE
  /\ spawnErr = FALSE
  /\ run = 1
  /\ fs0 = fs
  /\ prevExit = -1

(***************************************************************************)
(* Line 74: os.makedirs(ICONSET, exist_ok=True).                           *)
(***************************************************************************)
MakeDirsIconset ==
  /\ pc = "mkdir1"
  /\ \E permitted \in BOOLEAN :
       LET r == makedirs(fs, ICONSET, ExistOk, permitted)
       IN  /\ fs' = r.fs
           /\ mkdirErr' = r.err
           /\ pc' = IF r.err THEN "aborted" ELSE "mkdir2"
           /\ exitCode' = IF r.err THEN ExitStatus(TRUE) ELSE exitCode
  /\ UNCHANGED <<i, sizes, child, rc, stdout, calls, pkgCalls, statuses,
                 spawnErr, run, fs0, prevExit>>

(***************************************************************************)
(* Line 75: os.makedirs(os.path.dirname(ICNS_OUT), exist_ok=True).         *)
(***************************************************************************)
MakeDirsOut ==
  /\ pc = "mkdir2"
  /\ \E permitted \in BOOLEAN :
       LET r == makedirs(fs, dirname(ICNS_OUT), ExistOk, permitted)
       IN  /\ fs' = r.fs
           /\ mkdirErr' = r.err
           /\ pc' = IF r.err THEN "aborted" ELSE "loop"
           /\ exitCode' = IF r.err THEN ExitStatus(TRUE) ELSE exitCode
  /\ UNCHANGED <<i, sizes, child, rc, stdout, calls, pkgCalls, statuses,
                 spawnErr, run, fs0, prevExit>>

(***************************************************************************)
(* Lines 77-80 and 69: the loop takes the next entry, prints its progress  *)
(* line and generate_png starts /usr/bin/swift on the program text; when   *)
(* the program cannot be started subprocess.run raises at once.            *)
(***************************************************************************)
RenderStart ==
  /\ pc = "loop"
  /\ i <= Len(sizes)
  /\ LET name == sizes[i][1]
         size == sizes[i][2]
         out == join(ICONSET, name)
     IN  /\ stdout' = Append(stdout, <<"item", name, size>>)
         /\ calls' = Append(calls, <<out, size>>)
  /\ \/ /\ child' = "running"
        /\ pc' = "swift"
        /\ UNCHANGED <<exitCode, spawnErr>>
     \/ /\ spawnErr' = TRUE
        /\ pc' = "aborted"
        /\ exitCode' = ExitStatus(TRUE)
        /\ UNCHANGED child
  /\ UNCHANGED <<i, sizes, fs, rc, pkgCalls, statuses, mkdirErr,
                 run, fs0, prevExit>>

(***************************************************************************)
(* The swift child terminates with some status.                            *)
(***************************************************************************)
SwiftExit ==
  /\ pc = "swift"
  /\ child = "running"
  /\ \E status \in ChildStatus :
       /\ rc' = status
       /\ statuses' = Append(statuses, status)
       /\ fs' = SwiftEffect(fs, calls[Len(calls)][1], calls[Len(calls)][2], status)
  /\ child' = "exited"
  /\ UNCHANGED <<pc, i, sizes, stdout, exitCode, calls, pkgCalls, mkdirErr,
                 spawnErr, run, fs0, prevExit>>

(***************************************************************************)
(* Lines 69-70 and 81: subprocess.run returns; check=True raises on a      *)
(* non-zero status and nothing catches it, otherwise "OK" is printed and   *)
(* the loop goes on.                                                       *)
(***************************************************************************)
RenderReturn ==
  /\ pc = "swift"
  /\ Returned(child)
  /\ child' = "none"
  /\ \/ /\ Raises(rc)
        /\ pc' = "aborted"
        /\ exitCode' = ExitStatus(TRUE)
        /\ UNCHANGED <<i, stdout>>
     \/ /\ ~Raises(rc)
        /\ stdout' = Append(stdout, <<"OK">>)
        /\ i' = NextEntry(i)
        /\ pc' = "loop"
        /\ UNCHANGED exitCode
  /\ UNCHANGED <<sizes, fs, rc, calls, pkgCalls, statuses, mkdirErr,
                 spawnErr, run, fs0, prevExit>>

(***************************************************************************)
(* Lines 83-84: the loop is exhausted; "Creating .icns..." is printed and  *)
(* iconutil is started, or cannot be and subprocess.run raises.            *)
(***************************************************************************)
PackageStart ==
  /\ pc = "loop"
  /\ i > Len(sizes)
  /\ stdout' = Append(stdout, <<"Creating .icns...">>)
  /\ pkgCalls' = pkgCalls + 1
  /\ \/ /\ child' = "running"
        /\ pc' = "icns"
        /\ UNCHANGED <<exitCode, spawnErr>>
     \/ /\ spawnErr' = TRUE
        /\ pc' = "aborted"
        /\ exitCode' = ExitStatus(TRUE)
        /\ UNCHANGED child
  /\ UNCHANGED <<i, sizes, fs, rc, calls, statuses, mkdirErr,
                 run, fs0, prevExit>>

(***************************************************************************)
(* The iconutil child terminates with some status.                         *)
(***************************************************************************)
IconutilExit ==
  /\ pc = "icns"
  /\ child = "running"
  /\ \E status \in ChildStatus :
       /\ rc' = status
       /\ statuses' = Append(statuses, status)
       /\ fs' = IconutilEffect(fs, ICONSET, ICNS_OUT, status)
  /\ child' = "exited"
  /\ UNCHANGED <<pc, i, sizes, stdout, exitCode, calls, pkgCalls, mkdirErr,
                 spawnErr, run, fs0, prevExit>>

(***************************************************************************)
(* Lines 84-85: subprocess.run returns; check=True raises on a non-zero    *)
(* status, otherwise "Done: ..." is printed and main returns.              *)
(***************************************************************************)
PackageReturn ==
  /\ pc = "icns"
  /\ Returned(child)
  /\ child' = "none"
  /\ \/ /\ Raises(rc)
        /\ pc' = "aborted"
        /\ exitCode' = ExitStatus(TRUE)
        /\ UNCHANGED stdout
     \/ /\ ~Raises(rc)
        /\ stdout' = Append(stdout, <<"Done", ICNS_OUT>>)
        /\ pc' = "done"
        /\ exitCode' = ExitStatus(FALSE)
  /\ UNCHANGED <<i, sizes, fs, rc, calls, pkgCalls, statuses, mkdirErr,
                 spawnErr, run, fs0, prevExit>>

(***************************************************************************)
(* Lines 88-89: the script is invoked again after the previous invocation  *)
(* has exited; the module is loaded afresh, the filesystem is as left.     *)
(***************************************************************************)
Restart ==
  /\ pc \in {"done", "aborted"}
  /\ run < MaxRuns
  /\ run' = run + 1
  /\ prevExit' = exitCode
  /\ fs0' = fs
  /\ pc' = "mkdir1"
  /\ i' = 1
  /\ sizes' = SIZES
  /\ child' = "none"
  /\ rc' = 0
  /\ stdout' = <<>>
  /\ exitCode' = -1
  /\ calls' = <<>>
  /\ pkgCalls' = 0
  /\ statuses' = <<>>
  /\ mkdirErr' = FALSE
  /\ spawnErr' = FALSE
  /\ UNCHANGED fs

\* Steps of the script itself.
MainStep ==
  \/ MakeDirsIconset
  \/ MakeDirsOut
  \/ RenderStart
  \/ RenderReturn
  \/ PackageStart
  \/ PackageReturn

\* Steps of the child processes.
ChildExit == SwiftExit \/ IconutilExit

Next == MainStep \/ ChildExit \/ Restart

Spec == Init /\ [][Next]_vars

(***************************************************************************)
(* The interpreter keeps running the script, and every child that was      *)
(* started eventually exits.                                               *)
(***************************************************************************)
LiveSpec == Spec /\ WF_vars(MainStep) /\ WF_vars(ChildExit)

(***************************************************************************)
(* Properties.                                                             *)
(***************************************************************************)
Terminal == pc \in {"done", "aborted"}

\* The path and the edge length main() passes to generate_png for entry k.
EntryPath(k) == ICONSET \o <<SIZES[k][1]>>

EntrySize(k) == SIZES[k][2]

\* The children of this run that exited non-zero: positions in statuses.
Failed == {k \in 1..Len(statuses) : statuses[k] # 0}

\* C1: when a run has returned from main (DONE), every entry of SIZES has a
\* PNG under its own name in the iconset directory, rendered at its own edge
\* length, and generate_png was called for it with exactly that path and size.
C1_AllStaged ==
  pc = "done" =>
    /\ Len(calls) = Len(SIZES)
    /\ \A k \in 1..Len(SIZES) :
         /\ calls[k] = <<EntryPath(k), EntrySize(k)>>
         /\ fs[EntryPath(k)] = Png(EntrySize(k))

\* A run that started over unreadable files in the iconset has completed.
C1_Witness ==
  /\ pc = "done"
  /\ \A k \in 1..Len(SIZES) : fs0[EntryPath(k)] = Junk
  /\ fs[EntryPath(Len(SIZES))].px = 1024

\* C2: when swift exits non-zero for the entry at position k, no generate_png
\* call follows the k-th, iconutil is never run, and once subprocess.run has
\* returned the script has exited with a non-zero status.
C2_RenderFailureHalts ==
  \A k \in Failed :
    k <= Len(SIZES) =>
      /\ Len(calls) = k
      /\ Len(statuses) = k
      /\ pkgCalls = 0
      /\ child = "none" => pc = "aborted" /\ exitCode > 0

\* The render of the fourth entry failed and the script has exited.
C2_Witness ==
  /\ pc = "aborted"
  /\ Len(statuses) = 4
  /\ statuses[4] # 0
  /\ Len(calls) = 4

\* C3 as stated: when iconutil fails, the script exits non-zero and no bundle
\* is at the output path, whatever was there when the run started.
C3_NoBundleAfterFailure ==
  (pc = "aborted" /\ pkgCalls = 1) => exitCode > 0 /\ ~exists(fs, ICNS_OUT)

\* C3 amended: when iconutil fails, the script exits non-zero and the output
\* path holds what it held when the run started: nothing if nothing was there,
\* the earlier bundle if one was.
C3_BundleUntouchedAfterFailure ==
  /\ (pkgCalls = 1 /\ Len(statuses) > Len(SIZES) /\ statuses[Len(statuses)] # 0)
       => fs[ICNS_OUT] = fs0[ICNS_OUT]
  /\ (pc = "aborted" /\ pkgCalls = 1)
       => exitCode > 0 /\ fs[ICNS_OUT] = fs0[ICNS_OUT]

\* Packaging failed in a run that started without a bundle.
C3_Witness ==
  /\ pc = "aborted"
  /\ pkgCalls = 1
  /\ ~exists(fs0, ICNS_OUT)
  /\ ~exists(fs, ICNS_OUT)

\* C4: INIT leaves both directories in place when it completes; a makedirs
\* call on a directory that is already there succeeds and changes nothing; and
\* a run that follows a successful run does not fail in INIT.
C4_InitIdempotent ==
  /\ []((pc \notin {"mkdir1", "mkdir2"} /\ ~mkdirErr)
          => isdir(fs, ICONSET) /\ isdir(fs, dirname(ICNS_OUT)))
  /\ [](prevExit = 0 => ~mkdirErr)
  /\ [][(pc = "mkdir1" /\ isdir(fs, ICONSET)) => (pc' = "mkdir2" /\ fs' = fs)]_vars
  /\ [][(pc = "mkdir2" /\ isdir(fs, dirname(ICNS_OUT))) => (pc' = "loop" /\ fs' = fs)]_vars

\* The second run, after a successful first one that had to create both
\* directories, is past INIT.
C4_Witness ==
  /\ run = 2
  /\ prevExit = 0
  /\ pc = "loop"
  /\ fs = fs0

\* C5: when a run that follows a successful run succeeds too, the iconset
\* directory holds the same entries with the same contents as after the first
\* run, and a bundle is at the output path after both.
C5_SecondRunSame ==
  (run > 1 /\ prevExit = 0 /\ pc = "done") =>
    /\ Listing(fs, ICONSET) = Listing(fs0, ICONSET)
    /\ fs[ICNS_OUT].kind = "icns"
    /\ fs0[ICNS_OUT].kind = "icns"
    /\ fs[ICNS_OUT] = fs0[ICNS_OUT]

\* Two successful runs in succession.
C5_Witness ==
  /\ run = 2
  /\ prevExit = 0
  /\ pc = "done"
  /\ Cardinality(Listing(fs, ICONSET)) >= Len(SIZES)

\* C6: when the script has exited, its status is 0 exactly when no makedirs
\* raised and all children, one swift per entry and one iconutil, were started
\* and exited 0; a non-zero status comes with a makedirs error or with a tool
\* invocation that failed (it exited non-zero or could not be started).
C6_ExitCode ==
  Terminal =>
    /\ exitCode >= 0
    /\ exitCode = 0 <=>
         /\ ~mkdirErr
         /\ ~spawnErr
         /\ Len(statuses) = Len(SIZES) + 1
         /\ Failed = {}
    /\ exitCode # 0 => (mkdirErr \/ spawnErr \/ Failed # {})
    /\ exitCode = 0 <=> pc = "done"

\* After a run that exited 0, a run has exited 1 because iconutil failed.
C6_Witness ==
  /\ Terminal
  /\ exitCode = 1
  /\ ~mkdirErr
  /\ ~spawnErr
  /\ Len(statuses) = Len(SIZES) + 1
  /\ prevExit = 0

\* C7 as stated: the list has eleven entries and is never modified.
C7_ElevenEntries == Len(sizes) = 11 /\ sizes = SIZES

\* C7 amended: the list has ten entries and is never modified: in every state
\* it holds the entries the script lists, in their order.
C7_TenEntries == Len(sizes) = 10 /\ sizes = SIZES

\* The loop has gone through the whole list.
C7_Witness == pc = "done" /\ i = Len(sizes) + 1 /\ Len(sizes) = 10

\* The position of pc in the sequence INIT, RENDER, PACKAGE, DONE.
Stage(at) ==
  CASE at \in {"mkdir1", "mkdir2"} -> 1
    [] at \in {"loop", "swift"} -> 2
    [] at = "icns" -> 3
    [] OTHER -> 4

\* C8: generate_png is called only once INIT is complete, once per entry and
\* in the order of the list; iconutil is run at most once and only when swift
\* has exited 0 for every entry; "Done" is printed only when iconutil has
\* exited 0; and within a run the stage never goes back.
C8_Linear ==
  /\ [](calls # <<>> =>
          /\ pc \notin {"mkdir1", "mkdir2"}
          /\ ~mkdirErr
          /\ isdir(fs, ICONSET) /\ isdir(fs, dirname(ICNS_OUT)))
  /\ [](/\ Len(calls) <= Len(SIZES)
        /\ \A k \in 1..Len(calls) : calls[k] = <<EntryPath(k), EntrySize(k)>>)
  /\ [](/\ pkgCalls <= 1
        /\ pkgCalls = 1 =>
             /\ Len(calls) = Len(SIZES)
             /\ Len(statuses) >= Len(SIZES)
             /\ \A k \in 1..Len(SIZES) : statuses[k] = 0)
  /\ []((\E n \in 1..Len(stdout) : stdout[n][1] = "Done") =>
          /\ stdout[Len(stdout)] = <<"Done", ICNS_OUT>>
          /\ pkgCalls = 1
          /\ Len(statuses) = Len(SIZES) + 1
          /\ statuses[Len(statuses)] = 0)
  /\ [][run' = run => Stage(pc') >= Stage(pc)]_vars

\* iconutil is running after ten renders.
C8_Witness ==
  /\ pc = "icns"
  /\ child = "running"
  /\ Len(calls) = Len(SIZES)
  /\ pkgCalls = 1

\* C9: nothing that was on disk when the run started is ever gone; and when a
\* run has aborted after INIT, both directories are there and so is every
\* image whose render succeeded in this run.
C9_NothingRemoved ==
  /\ \A p \in Paths : exists(fs0, p) => exists(fs, p)
  /\ (pc = "aborted" /\ ~mkdirErr) =>
       /\ isdir(fs, ICONSET)
       /\ isdir(fs, dirname(ICNS_OUT))
       /\ \A k \in 1..Len(statuses) :
            (k <= Len(SIZES) /\ statuses[k] = 0) => fs[EntryPath(k)] = Png(EntrySize(k))

\* A run over earlier images aborted at the third render.
C9_Witness ==
  /\ pc = "aborted"
  /\ Len(statuses) = 3
  /\ exists(fs0, EntryPath(3))
  /\ ~exists(fs0, ICNS_OUT)

\* C10: while a child is running the script does not move; a run makes at most
\* one generate_png call per entry and one iconutil call; a run that has not
\* ended can take a step of its own unless it waits for a running child; and
\* when every child exits, every run ends.
C10_Terminates ==
  /\ [][child = "running" =>
          /\ pc' = pc
          /\ i' = i
          /\ stdout' = stdout
          /\ calls' = calls
          /\ pkgCalls' = pkgCalls
          /\ exitCode' = exitCode]_vars
  /\ [](Len(calls) <= 10 /\ pkgCalls <= 1)
  /\ [](~Terminal => (child = "running" \/ ENABLED MainStep))
  /\ (~Terminal ~> Terminal)

\* A run has ended after ten renders and one packaging.
C10_Witness ==
  /\ pc = "done"
  /\ Len(calls) = 10
  /\ pkgCalls = 1
  /\ child = "none"

=============================================================================
